---- MODULE Spec2Model ----
(***************************************************************************)
(* Model of the Sensortherm METIS driver (src/src/sensortherm/metis.py).   *)
(*                                                                         *)
(* Byte strings and text are sequences of one-character strings; the       *)
(* carriage return terminator is "\r".  A float result n / d is kept as    *)
(* the pair <<n, d>>.  The transport is the injected serial stream: it     *)
(* accepts every write, and read_until returns either a terminated line    *)
(* or, on its read timeout, whatever arrived so far.                       *)
(***************************************************************************)
EXTENDS Integers, Sequences, FiniteSets, TLC

VARIABLES
    address,      \* Metis._address
    constructed,  \* TRUE once Metis.__init__ has run
    wire,         \* the transport calls made so far, oldest first
    last,         \* the latest call on the facade and how it ended
    ops,          \* number of facade operations called so far
    slice         \* the bytes handed to _parse_int (SpecParse only)

vars == <<address, constructed, wire, last, ops, slice>>

\* Bounds of the model.
MaxOps == 2
MaxSliceLen == 3

-----------------------------------------------------------------------------
(* Text primitives *)

\* A byte outside the ASCII range (>= 0x80).
NonAscii == "<80>"

\* Python's None for the optional `data` argument of _str_command.
None == <<"<None>">>

LowerHex == <<"0", "1", "2", "3", "4", "5", "6", "7", "8", "9",
              "a", "b", "c", "d", "e", "f">>

UpperHex == <<"0", "1", "2", "3", "4", "5", "6", "7", "8", "9",
              "A", "B", "C", "D", "E", "F">>

\* The characters int() skips at both ends of its argument.
Whitespace == {" ", "\t", "\n", "\r", "\f"}

IsHexDigit(c) == \E i \in 1..16 : c = LowerHex[i] \/ c = UpperHex[i]

DigitValue(c) == CHOOSE v \in 0..15 : c = LowerHex[v + 1] \/ c = UpperHex[v + 1]

Abs(n) == IF n < 0 THEN 0 - n ELSE n

\* The digits of n >= 0 in the given base, most significant first.
RECURSIVE Digits(_, _)
Digits(n, base) ==
    IF n < base THEN <<LowerHex[n + 1]>>
    ELSE Digits(n \div base, base) \o <<LowerHex[(n % base) + 1]>>

\* Python's format(n, '02d') / format(n, '02x'): sign, zero fill up to a
\* total width of 2, digits; longer numbers are not cut.
Format02_NoPad(n, base) ==
    (IF n < 0 THEN <<"-">> ELSE <<>>) \o Digits(Abs(n), base)

Format02(n, base) ==
    LET sign == IF n < 0 THEN <<"-">> ELSE <<>>
        body == Digits(Abs(n), base)
        fill == IF Len(sign) + Len(body) < 2 THEN <<"0">> ELSE <<>>
    IN  sign \o fill \o body

\* Python's f'{n}' of an int.
Str(n) == (IF n < 0 THEN <<"-">> ELSE <<>>) \o Digits(Abs(n), 10)

RECURSIVE LStrip(_)
LStrip(s) ==
    IF s # <<>> /\ Head(s) \in Whitespace THEN LStrip(Tail(s)) ELSE s

RECURSIVE RStrip(_)
RStrip(s) ==
    IF s # <<>> /\ s[Len(s)] \in Whitespace
    THEN RStrip(SubSeq(s, 1, Len(s) - 1)) ELSE s

\* The value of a run of hex digits with its underscores skipped.
RECURSIVE Magnitude(_, _)
Magnitude(s, acc) ==
    IF s = <<>> THEN acc
    ELSE IF Head(s) = "_" THEN Magnitude(Tail(s), acc)
    ELSE Magnitude(Tail(s), 16 * acc + DigitValue(Head(s)))

\* Python's int(text, 16), last step: the digits.  At least one, single
\* underscores allowed between two digits only.
ParseDigits(s) ==
    IF /\ s # <<>>
       /\ IsHexDigit(s[1])
       /\ IsHexDigit(s[Len(s)])
       /\ \A i \in 1..Len(s) :
              \/ IsHexDigit(s[i])
              \/ s[i] = "_" /\ i > 1 /\ s[i - 1] # "_"
    THEN [ok |-> TRUE, value |-> Magnitude(s, 0)]
    ELSE [ok |-> FALSE, value |-> 0]

\* One underscore may follow the base prefix.
SkipUnderscore(s) == IF s # <<>> /\ s[1] = "_" THEN Tail(s) ELSE s

\* A 0x / 0X prefix is skipped in base 16.
SkipPrefix(s) ==
    IF Len(s) >= 2 /\ s[1] = "0" /\ s[2] \in {"x", "X"}
    THEN SkipUnderscore(SubSeq(s, 3, Len(s))) ELSE s

\* One leading sign is skipped.
SkipSign(s) == IF s # <<>> /\ s[1] \in {"+", "-"} THEN Tail(s) ELSE s

WithSign(neg, parsed) ==
    IF neg /\ parsed.ok THEN [ok |-> TRUE, value |-> 0 - parsed.value]
    ELSE parsed

ParseStripped(s) ==
    WithSign(s # <<>> /\ s[1] = "-", ParseDigits(SkipPrefix(SkipSign(s))))

\* Python's int(text, 16): surrounding whitespace, one sign, a 0x / 0X
\* prefix and single underscores between digits are accepted.
PyInt16(text) == ParseStripped(RStrip(LStrip(text)))

\* bytes.decode('ascii')
AsciiDecodable(data) == \A i \in 1..Len(data) : data[i] # NonAscii

IntOrValueError(parsed) ==
    IF parsed.ok THEN [raised |-> "", value |-> parsed.value]
    ELSE [raised |-> "ValueError", value |-> 0]

\* _parse_int: the exception raised ("" for none) and the value returned.
_parse_int(data) ==
    IF ~AsciiDecodable(data) THEN [raised |-> "UnicodeDecodeError", value |-> 0]
    ELSE IntOrValueError(PyInt16(data))

-----------------------------------------------------------------------------
(* Enumerations *)

MeasurementChannel_Distinct ==
    [TWO_COLOUR |-> 0, SINGLE_COLOUR_CHANNEL_1 |-> 1, SINGLE_COLOUR_CHANNEL_2 |-> 2]

MeasurementChannel ==
    [TWO_COLOUR |-> 0, SINGLE_COLOUR_CHANNEL_1 |-> 1, SINGLE_COLOUR_CHANNEL_2 |-> 1]

TargetingLightState == [OFF |-> 0, ON |-> 1, TOGGLE |-> 2]

InternalTemperatureSensor == [ONE |-> 0, TWO |-> 1]

BufferMode == [ZERO |-> 0, ONE |-> 1, TWO |-> 2, THREE |-> 3]

Command ==
    [REFERENCE_NUMBER_SHORT    |-> <<"b", "n">>,
     REFERENCE_NUMBER_LONG     |-> <<"b", "n", "1">>,
     TARGETING_LIGHT           |-> <<"l", "a">>,
     SERIAL_NUMBER             |-> <<"s", "n">>,
     READ_MEASURED_TEMPERATURE |-> <<"m", "w">>,
     READ_TEMPERATURE_SENSOR   |-> <<"t", "s", "c">>,
     SIGNAL_STRENGTH           |-> <<"s", "l">>,
     BUFFER_MODE               |-> <<"b", "u", "m">>,
     BUFFER_READ               |-> <<"b", "u", "p">>]

\* The attributes the class BufferData has: its body holds annotations
\* only, and an annotation without a value binds no attribute.
BufferDataAttributes == {}

\* The field table of read_buffer: attribute read for the name, length,
\* parser.
FieldLayout ==
    <<[name |-> "temperature_2_colour",            length |-> 4, parser |-> "_parse_float"],
      [name |-> "temperature_1_colour_channel_1",  length |-> 4, parser |-> "_parse_float"],
      [name |-> "temperature_1_colour_channel_2",  length |-> 4, parser |-> "_parse_float"],
      [name |-> "setpoint_value_at_ramp_function", length |-> 4, parser |-> "_parse_float"],
      [name |-> "controller_manipulated_variable", length |-> 4, parser |-> "_parse_float"],
      [name |-> "signal_strength",                 length |-> 4, parser |-> "_parse_float"],
      [name |-> "data_status_byte_0",              length |-> 2, parser |-> "_parse_data_status_0"],
      [name |-> "data_status_byte_1",              length |-> 2, parser |-> "_parse_data_status_1"],
      [name |-> "data_status_byte_2",              length |-> 2, parser |-> "_parse_data_status_2"],
      [name |-> "data_status_byte_3",              length |-> 2, parser |-> "_parse_data_status_3"],
      [name |-> "analog_input",                    length |-> 4, parser |-> "_parse_int"],
      [name |-> "_l_unused",                       length |-> 4, parser |-> "_noop"],
      [name |-> "measured_temperature",            length |-> 4, parser |-> "_parse_float"],
      [name |-> "_m_unused",                       length |-> 4, parser |-> "_noop"]>>

-----------------------------------------------------------------------------
(* What the transport hands back, and who is asked *)

NoLine == <<"n", "o", "\r">>

\* A reply to the buffer read longer than the whole field table.
FullPayload ==
    <<"0", "0", "6", "4", "0", "0", "c", "8", "0", "1",
     "2", "c", "0", "1", "9", "0", "0", "1", "f", "4",
     "0", "2", "5", "8", "0", "1", "0", "2", "0", "4",
     "0", "5", "0", "0", "f", "f", "0", "0", "0", "0",
     "0", "3", "e", "8", "0", "0", "0", "0", "a", "b">>

PayloadLengths == {0, 4, 6, 8, 32, 44, 48, 50}

Payload(k) == SubSeq(FullPayload, 1, k)

\* What read_until(b'\r') may return: terminated lines, and on the read
\* timeout the bytes received so far (none, or a line still lacking its
\* terminator).
ResponseLines ==
    {Payload(k) \o <<"\r">> : k \in PayloadLengths} \cup
    {NoLine, <<>>, <<"n", "o", "x">>,
     <<"1", "a", "\r">>, <<"0", "3", "\r">>, <<"0", "4", "\r">>,
     <<"-", "1", "\r">>, <<" ", "1", "\r">>, <<"1", "g", "\r">>,
     <<NonAscii, "\r">>}

\* The replies given to the commands whose answer is one number: at most
\* six digits, so that the value stays within TLC's 32-bit integers
\* (Python's own are unbounded).
NumberLines == {line \in ResponseLines : Len(line) <= 7}

\* The addresses a caller may pass to Metis(address, stream).
Addresses == {0, 3, 99, 100, 0 - 1}

ParseAlphabet == {"0", "1", "a", "F", "g", "-", "+", " ", "_", "x", NonAscii}

Slices == UNION {[1..n -> ParseAlphabet] : n \in 0..MaxSliceLen}

-----------------------------------------------------------------------------
(* Values returned to the caller *)

NoResult == [kind |-> "none", text |-> <<>>, vals |-> <<>>, fields |-> {}]

Value(kind, text, vals) ==
    [kind |-> kind, text |-> text, vals |-> vals, fields |-> {}]

\* How a call ended: the transport calls it made, the lines written and
\* read, the decoders applied (each with the response it was applied to),
\* the exception raised ("" for none) and the value returned.
Ret(sc, decoded, raised, result) ==
    [events |-> sc.events, written |-> sc.written, read |-> sc.read,
     decoded |-> decoded, raised |-> raised, result |-> result]

NoCall ==
    [op |-> "", arg |-> "", written |-> <<>>, read |-> <<>>,
     decoded |-> <<>>, outcome |-> "", result |-> NoResult]

-----------------------------------------------------------------------------
(* Metis: the command round trip *)

_str_command_NoReject(addr, command, data, line) ==
    [events  |-> <<[kind |-> "write", by |-> "_str_command"],
                   [kind |-> "read", by |-> "_str_command"]>>,
     written |-> <<Format02(addr, 10) \o Command[command]
                     \o (IF data = None THEN <<>> ELSE data) \o <<"\r">>>>,
     read    |-> <<line>>,
     answer  |-> SubSeq(line, 1, Len(line) - 1),
     raised  |-> ""]

_str_command_WriteOnly(addr, command, data, line) ==
    [events  |-> <<[kind |-> "write", by |-> "_str_command"]>>,
     written |-> <<Format02(addr, 10) \o Command[command]
                     \o (IF data = None THEN <<>> ELSE data) \o <<"\r">>>>,
     read    |-> <<line>>,
     answer  |-> SubSeq(line, 1, Len(line) - 1),
     raised  |-> IF SubSeq(line, 1, Len(line) - 1) = <<"n", "o">>
                 THEN "MetisException" ELSE ""]

\* _str_command: format the command line, write it, flush, read up to the
\* terminator, drop the last byte of what was read, raise on b'no'.
\* `line` is what read_until returns for this command.
_str_command(addr, command, data, line) ==
    LET command_string ==
            Format02(addr, 10) \o Command[command]
                \o (IF data = None THEN <<>> ELSE data) \o <<"\r">>
        answer == SubSeq(line, 1, Len(line) - 1)
    IN  [events  |-> <<[kind |-> "write", by |-> "_str_command"],
                       [kind |-> "read", by |-> "_str_command"]>>,
         written |-> <<command_string>>,
         read    |-> <<line>>,
         answer  |-> answer,
         raised  |-> IF answer = <<"n", "o">> THEN "MetisException" ELSE ""]

\* A command that ended, with the outcome of parsing its answer.
WithParsed(sc, parsed) ==
    [sc |-> sc,
     decoded |-> <<[decoder |-> "_parse_int", input |-> sc.answer]>>,
     raised |-> parsed.raised, value |-> parsed.value]

ParseAnswer(sc) ==
    IF sc.raised # ""
    THEN [sc |-> sc, decoded |-> <<>>, raised |-> sc.raised, value |-> 0]
    ELSE WithParsed(sc, _parse_int(sc.answer))

\* _int_command: _str_command, then _parse_int of the answer.
_int_command(addr, command, data, line) ==
    ParseAnswer(_str_command(addr, command, data, line))

\* An int command whose value is divided by a constant.
ScaledCommand(ic, divider) ==
    Ret(ic.sc, ic.decoded, ic.raised,
        IF ic.raised # "" THEN NoResult
        ELSE Value("float", <<>>, <<<<ic.value, divider>>>>))

\* A str command whose answer is decoded as ASCII text.
DecodedCommand(sc) ==
    IF sc.raised # "" THEN Ret(sc, <<>>, sc.raised, NoResult)
    ELSE IF ~AsciiDecodable(sc.answer)
    THEN Ret(sc, <<[decoder |-> "decode", input |-> sc.answer]>>,
             "UnicodeDecodeError", NoResult)
    ELSE Ret(sc, <<[decoder |-> "decode", input |-> sc.answer]>>,
             "", Value("str", sc.answer, <<>>))

\* A str command whose answer is returned as it is.
BytesCommand(sc) ==
    Ret(sc, <<>>, sc.raised,
        IF sc.raised # "" THEN NoResult ELSE Value("bytes", sc.answer, <<>>))

\* A str command whose answer is dropped.
NoneCommand(sc) ==
    Ret(sc, <<>>, sc.raised,
        IF sc.raised # "" THEN NoResult ELSE Value("None", <<>>, <<>>))

_targeting_light(addr, state, line) ==
    BytesCommand(_str_command(addr, "TARGETING_LIGHT",
                              Str(TargetingLightState[state]), line))

read_type_short(addr, line) ==
    DecodedCommand(_str_command(addr, "REFERENCE_NUMBER_SHORT", None, line))

read_type_long(addr, line) ==
    DecodedCommand(_str_command(addr, "REFERENCE_NUMBER_LONG", None, line))

read_serial(addr, line) ==
    DecodedCommand(_str_command(addr, "SERIAL_NUMBER", None, line))

read_temperature(addr, channel, line) ==
    ScaledCommand(_int_command(addr, "READ_MEASURED_TEMPERATURE",
                               Str(MeasurementChannel[channel]), line), 10)

read_temperature_sensor(addr, sensor, line) ==
    ScaledCommand(_int_command(addr, "READ_TEMPERATURE_SENSOR",
                               Str(InternalTemperatureSensor[sensor]), line), 256)

\* Two calls in a row; the second is made only when the first returned.
OneThenTwo(one, two) ==
    IF one.raised # "" THEN one
    ELSE [events  |-> one.events \o two.events,
          written |-> one.written \o two.written,
          read    |-> one.read \o two.read,
          decoded |-> one.decoded \o two.decoded,
          raised  |-> two.raised,
          result  |-> IF two.raised # "" THEN NoResult
                      ELSE Value("tuple", <<>>,
                                 one.result.vals \o two.result.vals)]

read_temperature_sensors(addr, line1, line2) ==
    OneThenTwo(read_temperature_sensor(addr, "ONE", line1),
               read_temperature_sensor(addr, "TWO", line2))

read_signal_strength(addr, line) ==
    ScaledCommand(_int_command(addr, "SIGNAL_STRENGTH", None, line), 10)

\* BufferMode(answer) raises ValueError for a value that is no member.
ToBufferMode(ic) ==
    IF ic.raised # "" THEN Ret(ic.sc, ic.decoded, ic.raised, NoResult)
    ELSE IF \A m \in DOMAIN BufferMode : BufferMode[m] # ic.value
    THEN Ret(ic.sc,
             ic.decoded \o <<[decoder |-> "BufferMode", input |-> ic.sc.answer]>>,
             "ValueError", NoResult)
    ELSE Ret(ic.sc,
             ic.decoded \o <<[decoder |-> "BufferMode", input |-> ic.sc.answer]>>,
             "", Value("BufferMode", <<>>, <<<<ic.value, 1>>>>))

get_buffer_mode(addr, line) ==
    ToBufferMode(_int_command(addr, "BUFFER_MODE", None, line))

set_buffer_mode(addr, buffer_mode, line) ==
    NoneCommand(_str_command(addr, "BUFFER_MODE",
                             Format02(BufferMode[buffer_mode], 16), line))

\* The exception a field's parser raises on a slice ("" for none): every
\* parser but _noop goes through _parse_int.
FieldParserRaises(field, data) ==
    IF field.parser = "_noop" THEN "" ELSE _parse_int(data).raised

\* The first turn of the loop of read_buffer: slice, parse, and assign to
\* the name of a namedtuple, which raises AttributeError.
FirstField(sc, field, field_data) ==
    Ret(sc, <<[decoder |-> field.parser, input |-> field_data]>>,
        IF FieldParserRaises(field, field_data) # ""
        THEN FieldParserRaises(field, field_data) ELSE "AttributeError",
        NoResult)

\* The body of read_buffer after the command.  Building the field table
\* reads each field's name as an attribute of the class BufferData and
\* raises AttributeError for one the class does not have.  Past that, the
\* loop raises in its first turn, so no record is ever returned.
DecodeBuffer(sc) ==
    IF sc.raised # "" THEN Ret(sc, <<>>, sc.raised, NoResult)
    ELSE IF \E i \in DOMAIN FieldLayout :
                FieldLayout[i].name \notin BufferDataAttributes
    THEN Ret(sc, <<>>, "AttributeError", NoResult)
    ELSE FirstField(sc, FieldLayout[1],
                    SubSeq(sc.answer, 1,
                           IF FieldLayout[1].length < Len(sc.answer)
                           THEN FieldLayout[1].length ELSE Len(sc.answer)))

read_buffer(addr, line) ==
    DecodeBuffer(_str_command(addr, "BUFFER_READ", None, line))

-----------------------------------------------------------------------------
(* The facade as a state machine *)

Init ==
    /\ address = 0
    /\ constructed = FALSE
    /\ wire = <<>>
    /\ last = NoCall
    /\ ops = 0
    /\ slice = <<>>

\* Metis.__init__: keep the address and the stream, write one bare
\* terminator, read nothing.
Construct ==
    \E a \in Addresses :
        /\ ~constructed
        /\ address' = a
        /\ constructed' = TRUE
        /\ wire' = <<[kind |-> "write", by |-> "__init__"]>>
        /\ last' = [op |-> "__init__", arg |-> "", written |-> <<<<"\r">>>>,
                    read |-> <<>>, decoded |-> <<>>, outcome |-> "ok",
                    result |-> NoResult]
        /\ UNCHANGED <<ops, slice>>

\* One call of a facade method by the single caller.
Facade(op, arg, ret) ==
    /\ constructed
    /\ ops < MaxOps
    /\ ops' = ops + 1
    /\ wire' = wire \o ret.events
    /\ last' = [op |-> op, arg |-> arg, written |-> ret.written,
                read |-> ret.read, decoded |-> ret.decoded,
                outcome |-> IF ret.raised = "" THEN "ok" ELSE ret.raised,
                result |-> ret.result]
    /\ UNCHANGED <<address, constructed, slice>>

ToggleLaser ==
    \E line \in ResponseLines :
        Facade("toggle_laser", "", _targeting_light(address, "TOGGLE", line))

LaserOn ==
    \E line \in ResponseLines :
        Facade("laser_on", "", _targeting_light(address, "ON", line))

LaserOff ==
    \E line \in ResponseLines :
        Facade("laser_off", "", _targeting_light(address, "OFF", line))

ReadTypeShort ==
    \E line \in ResponseLines :
        Facade("read_type_short", "", read_type_short(address, line))

ReadTypeLong ==
    \E line \in ResponseLines :
        Facade("read_type_long", "", read_type_long(address, line))

ReadSerial ==
    \E line \in ResponseLines :
        Facade("read_serial", "", read_serial(address, line))

ReadTemperature ==
    \E line \in NumberLines, channel \in DOMAIN MeasurementChannel :
        Facade("read_temperature", channel,
               read_temperature(address, channel, line))

Read2ColourTemoperature ==
    \E line \in NumberLines :
        Facade("read_2_colour_temoperature", "",
               read_temperature(address, "TWO_COLOUR", line))

ReadSingleColourChannel1 ==
    \E line \in NumberLines :
        Facade("read_single_colour_channel_1", "",
               read_temperature(address, "SINGLE_COLOUR_CHANNEL_1", line))

ReadSingleColourChannel2 ==
    \E line \in NumberLines :
        Facade("read_single_colour_channel_2", "",
               read_temperature(address, "SINGLE_COLOUR_CHANNEL_2", line))

ReadTemperatureSensor ==
    \E line \in NumberLines, sensor \in DOMAIN InternalTemperatureSensor :
        Facade("read_temperature_sensor", sensor,
               read_temperature_sensor(address, sensor, line))

ReadTemperatureSensors ==
    \E line1 \in NumberLines, line2 \in NumberLines :
        Facade("read_temperature_sensors", "",
               read_temperature_sensors(address, line1, line2))

ReadSignalStrength ==
    \E line \in NumberLines :
        Facade("read_signal_strength", "", read_signal_strength(address, line))

GetBufferMode ==
    \E line \in NumberLines :
        Facade("get_buffer_mode", "", get_buffer_mode(address, line))

SetBufferMode ==
    \E line \in ResponseLines, buffer_mode \in DOMAIN BufferMode :
        Facade("set_buffer_mode", buffer_mode,
               set_buffer_mode(address, buffer_mode, line))

ReadBuffer ==
    \E line \in ResponseLines :
        Facade("read_buffer", "", read_buffer(address, line))

Next ==
    \/ Construct
    \/ ToggleLaser
    \/ LaserOn
    \/ LaserOff
    \/ ReadTypeShort
    \/ ReadTypeLong
    \/ ReadSerial
    \/ ReadTemperature
    \/ Read2ColourTemoperature
    \/ ReadSingleColourChannel1
    \/ ReadSingleColourChannel2
    \/ ReadTemperatureSensor
    \/ ReadTemperatureSensors
    \/ ReadSignalStrength
    \/ GetBufferMode
    \/ SetBufferMode
    \/ ReadBuffer

Spec == Init /\ [][Next]_vars

-----------------------------------------------------------------------------
(* _parse_int on its own, over every short slice *)

InitParse ==
    /\ address = 0
    /\ constructed = FALSE
    /\ wire = <<>>
    /\ last = NoCall
    /\ ops = 0
    /\ slice \in Slices

ParseInt ==
    /\ last.op = ""
    /\ last' = [op |-> "_parse_int", arg |-> "", written |-> <<>>,
                read |-> <<>>,
                decoded |-> <<[decoder |-> "_parse_int", input |-> slice]>>,
                outcome |-> IF _parse_int(slice).raised = "" THEN "ok"
                            ELSE _parse_int(slice).raised,
                result |-> IF _parse_int(slice).raised = ""
                           THEN Value("int", <<>>, <<<<_parse_int(slice).value, 1>>>>)
                           ELSE NoResult]
    /\ UNCHANGED <<address, constructed, wire, ops, slice>>

NextParse == ParseInt

SpecParse == InitParse /\ [][NextParse]_vars

-----------------------------------------------------------------------------
(* Properties of read_buffer *)

\* C1: a buffer-read reply whose payload is exactly 4 hexadecimal digits of
\* value v makes read_buffer return, without error, a record that holds
\* measured_temperature = v / 10 and nothing else.
C1_Mode0Remap ==
    LET answer == SubSeq(last.read[1], 1, Len(last.read[1]) - 1)
    IN  ( /\ last.op = "read_buffer"
          /\ Len(last.read[1]) = 5
          /\ last.read[1][5] = "\r"
          /\ \A i \in 1..4 : IsHexDigit(answer[i]) )
        => /\ last.outcome = "ok"
           /\ last.result.fields =
                  {[name |-> "measured_temperature",
                    num |-> Magnitude(answer, 0), den |-> 10]}

\* C2: for every non-empty payload read_buffer walks the field table left
\* to right, decodes exactly the fields whose whole slice lies inside the
\* payload, stops without error at the first field that does not fit and
\* leaves it and the later fields absent.
C2_TruncationIsSuccess ==
    LET answer == SubSeq(last.read[1], 1, Len(last.read[1]) - 1)
        End(i) == IF i <= 6 THEN 4 * i
                  ELSE IF i <= 10 THEN 24 + 2 * (i - 6)
                  ELSE 32 + 4 * (i - 10)
        fitting == {FieldLayout[i].name :
                        i \in {j \in DOMAIN FieldLayout : End(j) <= Len(answer)}}
        kept == fitting \ {"_l_unused", "_m_unused"}
        expected == IF Len(answer) = 4 THEN {"measured_temperature"} ELSE kept
    IN  ( /\ last.op = "read_buffer"
          /\ Len(last.read[1]) >= 2
          /\ last.read[1][Len(last.read[1])] = "\r"
          /\ \A i \in 1..Len(answer) : IsHexDigit(answer[i]) )
        => /\ last.outcome = "ok"
           /\ {f.name : f \in last.result.fields} = expected

\* C3: an empty payload makes read_buffer return a record with every
\* field absent, without error and without applying a parser.
C3_EmptyPayload ==
    (last.op = "read_buffer" /\ last.read[1] = <<"\r">>)
    => /\ last.outcome = "ok"
       /\ last.result.kind = "dict"
       /\ last.result.fields = {}
       /\ last.decoded = <<>>

\* C4: for every payload and truncation point read_buffer completes its
\* discard step without error and returns a record without the two
\* reserved fields; a payload that covers every field but the last
\* reserved one yields every data field.
C4_ReservedDiscarded ==
    LET answer == SubSeq(last.read[1], 1, Len(last.read[1]) - 1)
        names == {f.name : f \in last.result.fields}
    IN  ( /\ last.op = "read_buffer"
          /\ Len(last.read[1]) >= 1
          /\ last.read[1][Len(last.read[1])] = "\r"
          /\ \A i \in 1..Len(answer) : IsHexDigit(answer[i]) )
        => /\ last.outcome = "ok"
           /\ names \cap {"_l_unused", "_m_unused"} = {}
           /\ Len(answer) = 44 =>
                  names = {FieldLayout[i].name : i \in DOMAIN FieldLayout}
                              \ {"_l_unused", "_m_unused"}

-----------------------------------------------------------------------------
(* Properties of the command round trip *)

\* C5: in every facade operation, a line read from the transport that is
\* exactly `no` plus the terminator ends the operation with
\* MetisException, and no decoder is applied to that response: the
\* decoders applied are those of the responses read before it.
C5_RejectionHandling ==
    \A i \in 1..Len(last.read) :
        last.read[i] = NoLine
        => /\ i = Len(last.read)
           /\ last.outcome = "MetisException"
           /\ Len(last.decoded) = i - 1
           /\ \A j \in 1..Len(last.decoded) :
                  last.decoded[j].input # <<"n", "o">>

C5_Witness ==
    /\ last.op = "read_temperature_sensors"
    /\ Len(last.read) = 2
    /\ last.read[2] = NoLine
    /\ last.outcome = "MetisException"

\* C6: for every address outside 0..99 the call fails with an
\* address-out-of-range error before any byte is written to or read from
\* the transport, the byte written at construction included.
C6_AddressRange ==
    (constructed /\ address \notin 0..99)
    => /\ last.outcome = "AddressOutOfRange"
       /\ wire = <<>>

\* C7: for every address in 0..99 each command an operation issues writes
\* exactly one line, <2-digit decimal address><token><argument>\r;
\* set_buffer_mode's argument is the mode as 2-digit lowercase hex, the
\* targeting light's the state as decimal text.  read_temperature_sensors
\* issues its two commands in order, the second only if the first call
\* returned.
C7_CommandFraming ==
    LET aa == <<LowerHex[(address \div 10) + 1], LowerHex[(address % 10) + 1]>>
        tails ==
            CASE last.op = "toggle_laser" -> <<<<"l", "a", "2">>>>
              [] last.op = "laser_on" -> <<<<"l", "a", "1">>>>
              [] last.op = "laser_off" -> <<<<"l", "a", "0">>>>
              [] last.op = "read_type_short" -> <<<<"b", "n">>>>
              [] last.op = "read_type_long" -> <<<<"b", "n", "1">>>>
              [] last.op = "read_serial" -> <<<<"s", "n">>>>
              [] last.op = "read_temperature" ->
                    IF last.arg = "TWO_COLOUR" THEN <<<<"m", "w", "0">>>>
                    ELSE <<<<"m", "w", "1">>>>
              [] last.op = "read_2_colour_temoperature" -> <<<<"m", "w", "0">>>>
              [] last.op = "read_single_colour_channel_1" -> <<<<"m", "w", "1">>>>
              [] last.op = "read_single_colour_channel_2" -> <<<<"m", "w", "1">>>>
              [] last.op = "read_temperature_sensor" ->
                    IF last.arg = "ONE" THEN <<<<"t", "s", "c", "0">>>>
                    ELSE <<<<"t", "s", "c", "1">>>>
              [] last.op = "read_temperature_sensors" ->
                    <<<<"t", "s", "c", "0">>, <<"t", "s", "c", "1">>>>
              [] last.op = "read_signal_strength" -> <<<<"s", "l">>>>
              [] last.op = "get_buffer_mode" -> <<<<"b", "u", "m">>>>
              [] last.op = "set_buffer_mode" ->
                    (CASE last.arg = "ZERO" -> <<<<"b", "u", "m", "0", "0">>>>
                       [] last.arg = "ONE" -> <<<<"b", "u", "m", "0", "1">>>>
                       [] last.arg = "TWO" -> <<<<"b", "u", "m", "0", "2">>>>
                       [] last.arg = "THREE" -> <<<<"b", "u", "m", "0", "3">>>>)
              [] last.op = "read_buffer" -> <<<<"b", "u", "p">>>>
        expected == [i \in 1..Len(tails) |-> aa \o tails[i] \o <<"\r">>]
    IN  (constructed /\ last.op # "__init__" /\ address \in 0..99)
        => /\ Len(last.written) >= 1
           /\ Len(last.written) = Len(last.read)
           /\ last.written = SubSeq(expected, 1, Len(last.written))
           /\ last.op # "read_temperature_sensors" => Len(last.written) = 1

C7_Witness ==
    /\ address = 3
    /\ last.op = "read_serial"
    /\ last.written = <<<<"0", "3", "s", "n", "\r">>>>

\* C8: _parse_int returns a value exactly for a non-empty slice made of
\* hexadecimal digits only, and the value is the base-16 one; every other
\* slice fails with a decode error.
C8_ParseUintStrict ==
    last.op = "_parse_int"
    => /\ last.outcome = "ok"
            <=> (slice # <<>> /\ \A i \in 1..Len(slice) : IsHexDigit(slice[i]))
       /\ last.outcome = "ok"
            => last.result.vals = <<<<Magnitude(slice, 0), 1>>>>
       /\ last.outcome # "ok"
            => last.outcome \in {"ValueError", "UnicodeDecodeError"}

====
